---- MODULE Spec2Model ----
(***************************************************************************)
(* The array-backed binary heap of src/heap.c.                             *)
(*                                                                         *)
(* A heap is the struct Heap (size, capacity, the pointer data) plus the   *)
(* buffer the pointer refers to.  Buffers live in mem, so that two heaps   *)
(* that held the same pointer would share their slots.  A buffer records   *)
(* how many slots the allocator really handed out (len) and whether it has *)
(* been released (freed): a slot at an index >= len lies outside the       *)
(* allocation, and whatever an operation leaves there is unspecified.      *)
(*                                                                         *)
(* Elements are pointers.  Element e points at the integer Val(e); two     *)
(* different pointers may point at equal integers.                         *)
(***************************************************************************)
EXTENDS Integers, Sequences, FiniteSets, TLC

\* ---------------------------------------------------------------- bounds
MaxSize == 3
MaxElem == 2
MaxHint == 1
MaxReserve == 3
MaxCalls == 4
MaxCloneOps == 3
MaxIterOps == 1

\* ------------------------------------------------------------- constants
HEAP_DEFAULT_CAP == 16
NULL == -1

Elems == 0..MaxElem
Slots == 0..(MaxSize - 1)
HeapIds == {"h", "c"}
Outcomes == {"ok", "fail"}

\* The caller's arrays: every sequence of at most MaxSize elements.
Arrays == UNION {[1..n -> Elems] : n \in 0..MaxSize}

VARIABLES
    heap,   \* heap[x]: the struct Heap behind handle x (null: no heap)
    mem,    \* mem[b]: the buffer b (slots, len, freed)
    arr,    \* the caller's array handed to heap_build / heap_sort
    arr0,   \* arr as it was when the last build/sort was called
    op,     \* the last call made
    on,     \* the handle it was made on
    ret,    \* what the last call returned
    it,     \* the HeapIter (heap, index), plus the heap as it was at
            \* heap_iter (snap) and whether it was changed since (dirty)
    out,    \* the elements heap_iter_next has stored through *out
    k,      \* successful inserts so far
    m,      \* extracts from a non-empty heap so far
    nops,   \* mutating calls made after the clone / the iterator was made
    rsv,    \* the largest n of a successful heap_reserve(n) since the last
            \* trim (0: none)
    run     \* the call in progress when sifting is followed loop iteration by
            \* loop iteration: which loop, its index, its swaps so far

vars == <<heap, mem, arr, arr0, op, on, ret, it, out, k, m, nops, rsv, run>>

\* ------------------------------------------------------------ comparator
\* The integer an element points at.
Val(e) == e \div 2

\* int_cmp of the demo: (x > y) - (x < y) on the pointees.
int_cmp(a, b) ==
    LET x == Val(a)
        y == Val(b)
    IN (IF x > y THEN 1 ELSE 0) - (IF x < y THEN 1 ELSE 0)

cmp(a, b) == int_cmp(a, b)

\* ---------------------------------------------------------- index helpers
\* The parent index of a heap laid out from index 1.
parent_one_based(i) == i \div 2

parent(i) == (i - 1) \div 2
left(i) == 2 * i + 1
right(i) == 2 * i + 2

swap(d, a, b) == [d EXCEPT ![a] = d[b], ![b] = d[a]]

\* ------------------------------------------------------------------ sifts
RECURSIVE sift_up(_, _)
sift_up(d, i) ==
    IF i > 0
    THEN LET p == parent(i)
         IN IF cmp(d[i], d[p]) <= 0
            THEN d
            ELSE sift_up(swap(d, i, p), p)
    ELSE d

\* sift_down moving a child up when it compares greater or equal.
RECURSIVE sift_down_non_strict(_, _, _)
sift_down_non_strict(d, size, i) ==
    LET l == left(i)
        r == right(i)
        l1 == IF l < size /\ cmp(d[l], d[i]) >= 0 THEN l ELSE i
        largest == IF r < size /\ cmp(d[r], d[l1]) >= 0 THEN r ELSE l1
    IN IF largest = i
       THEN d
       ELSE sift_down_non_strict(swap(d, i, largest), size, largest)

RECURSIVE sift_down(_, _, _)
sift_down(d, size, i) ==
    LET l == left(i)
        r == right(i)
        l1 == IF l < size /\ cmp(d[l], d[i]) > 0 THEN l ELSE i
        largest == IF r < size /\ cmp(d[r], d[l1]) > 0 THEN r ELSE l1
    IN IF largest = i
       THEN d
       ELSE sift_down(swap(d, i, largest), size, largest)

\* ------------------------------------------------------------ heap values
\* A heap value v joins the struct's fields with its buffer:
\*   v.size, v.capacity, v.slots, v.len, v.freed.
\* Every operation below returns [v, ret]: the heap afterwards and the
\* call's return value.  An operation reads and writes the slots it
\* indexes whether or not they lie inside the allocation.

\* What malloc hands out: the slots exist, nothing was stored in them.  No
\* operation reads a slot inside the allocation before it has written it.
FreshSlots == [i \in Slots |-> 0]

Result(v, r) == [v |-> v, ret |-> r]

\* No heap: what a failed construction leaves the caller with.
NoView ==
    [size |-> 0, capacity |-> 0, slots |-> FreshSlots, len |-> 0,
     freed |-> FALSE]

heap_create(capacity, ma) ==
    LET cap == IF capacity = 0 THEN HEAP_DEFAULT_CAP ELSE capacity
    IN IF ma = "fail"
       THEN Result(NoView, NULL)
       ELSE Result([size |-> 0, capacity |-> cap, slots |-> FreshSlots,
                    len |-> cap, freed |-> FALSE], 0)

RECURSIVE heapify(_, _, _)
heapify(d, n, i) ==
    IF i >= 0 THEN heapify(sift_down(d, n, i), n, i - 1) ELSE d

\* heap_build with the bottom-up loop started one node too low.
heap_build_low_start(a, ma) ==
    LET n == Len(a)
        copied == [i \in Slots |-> IF i < n THEN a[i + 1] ELSE FreshSlots[i]]
    IN IF ma = "fail"
       THEN Result(NoView, NULL)
       ELSE Result([size |-> n, capacity |-> n,
                    slots |-> heapify(copied, n, (n \div 2) - 2),
                    len |-> n, freed |-> FALSE], 0)

heap_build(a, ma) ==
    LET n == Len(a)
        copied == [i \in Slots |-> IF i < n THEN a[i + 1] ELSE FreshSlots[i]]
    IN IF ma = "fail"
       THEN Result(NoView, NULL)
       ELSE Result([size |-> n, capacity |-> n,
                    slots |-> heapify(copied, n, (n \div 2) - 1),
                    len |-> n, freed |-> FALSE], 0)

\* The answers realloc can give for the buffer of v.  "ok" and "fail" are
\* the two answers of a request on a block that holds every stored slot.
\* When slots were stored past the allocation (size > len) the allocator can
\* also answer with another block ("moved"): only the len slots the old
\* block held are copied, the slots after them read as whatever the new
\* block contains (junk).
Reallocs(v) ==
    {[ans |-> a, junk |-> 0] : a \in Outcomes}
        \cup (IF v.size > v.len
              THEN {[ans |-> "moved", junk |-> e] : e \in Elems}
              ELSE {})

\* heap_trim on an empty heap asks for zero bytes: besides the answers
\* above the allocator may release the block and return NULL ("freed").
TrimReallocs(v) == Reallocs(v) \cup {[ans |-> "freed", junk |-> 0]}

\* The buffer after realloc(data, n * sizeof(void *)) answered ra, not NULL.
realloc(v, n, ra) ==
    [v EXCEPT !.slots = IF ra.ans = "moved"
                        THEN [i \in Slots |->
                                 IF i < v.len THEN v.slots[i] ELSE ra.junk]
                        ELSE v.slots,
              !.len = n,
              !.freed = FALSE]

\* heap_reserve with the capacity stored before realloc's result is tested.
heap_reserve_early_store(v, n, ra) ==
    IF v.capacity >= n
    THEN Result(v, 0)
    ELSE IF ra.ans = "fail"
         THEN Result([v EXCEPT !.capacity = n], -1)
         ELSE Result([realloc(v, n, ra) EXCEPT !.capacity = n], 0)

heap_reserve(v, n, ra) ==
    IF v.capacity >= n
    THEN Result(v, 0)
    ELSE IF ra.ans = "fail"
         THEN Result(v, -1)
         ELSE Result([realloc(v, n, ra) EXCEPT !.capacity = n], 0)

heap_trim(v, ra) ==
    IF v.capacity = v.size
    THEN Result(v, 0)
    ELSE IF ra.ans \in {"ok", "moved"}
         THEN Result([realloc(v, v.size, ra) EXCEPT !.capacity = v.size], 0)
         ELSE IF ra.ans = "freed" /\ v.size = 0
              THEN Result([v EXCEPT !.len = 0, !.freed = TRUE], 0)
              ELSE Result(v, 0)

\* heap_insert with size++ done before the growth is attempted.
heap_insert_early_count(v, item, ra) ==
    LET g == IF v.size = v.capacity
             THEN heap_reserve(v, v.capacity * 2, ra)
             ELSE Result(v, 0)
        w == g.v
        stored == [w.slots EXCEPT ![w.size] = item]
    IN IF g.ret < 0
       THEN Result([v EXCEPT !.size = v.size + 1], -1)
       ELSE Result([w EXCEPT !.slots = sift_up(stored, w.size),
                             !.size = w.size + 1], 0)

heap_insert(v, item, ra) ==
    LET g == IF v.size = v.capacity
             THEN heap_reserve(v, v.capacity * 2, ra)
             ELSE Result(v, 0)
        w == g.v
        stored == [w.slots EXCEPT ![w.size] = item]
    IN IF g.ret < 0
       THEN Result(v, -1)
       ELSE Result([w EXCEPT !.slots = sift_up(stored, w.size),
                             !.size = w.size + 1], 0)

heap_peek(v) ==
    Result(v, IF v.size > 0 THEN v.slots[0] ELSE NULL)

heap_extract(v) ==
    IF v.size = 0
    THEN Result(v, NULL)
    ELSE LET root == v.slots[0]
             moved == [v.slots EXCEPT ![0] = v.slots[v.size - 1]]
             n == v.size - 1
         IN Result([v EXCEPT !.slots = IF n > 0 THEN sift_down(moved, n, 0)
                                                ELSE moved,
                             !.size = n], root)

\* heap_replace without the sift-down.
heap_replace_no_sift(v, item) ==
    IF v.size = 0
    THEN Result(v, NULL)
    ELSE Result([v EXCEPT !.slots = [v.slots EXCEPT ![0] = item]], v.slots[0])

\* heap_replace without the test for an empty heap.
heap_replace_store_on_empty(v, item) ==
    LET root == IF v.size = 0 THEN NULL ELSE v.slots[0]
        stored == [v.slots EXCEPT ![0] = item]
    IN Result([v EXCEPT !.slots = sift_down(stored, v.size, 0)], root)

heap_replace(v, item) ==
    IF v.size = 0
    THEN Result(v, NULL)
    ELSE LET root == v.slots[0]
             stored == [v.slots EXCEPT ![0] = item]
         IN Result([v EXCEPT !.slots = sift_down(stored, v.size, 0)], root)

heap_size(v) == Result(v, v.size)

heap_clear(v) == Result([v EXCEPT !.size = 0], 0)

\* The loop of heap_validate from index i on: false at the first index whose
\* element compares above its parent, true when the loop runs out.
RECURSIVE validate_loop(_, _)
validate_loop(v, i) ==
    IF i < v.size
    THEN IF cmp(v.slots[i], v.slots[parent(i)]) > 0
         THEN 0
         ELSE validate_loop(v, i + 1)
    ELSE 1

\* heap_validate with the loop started at index 2.
heap_validate_from_two(v) == Result(v, validate_loop(v, 2))

heap_validate(v) == Result(v, validate_loop(v, 1))

\* The clone's value: a new heap of the source's capacity, the first size
\* slots copied.
heap_clone(v, ma) ==
    LET c == heap_create(v.capacity, ma)
        w == c.v
        copied == [i \in Slots |-> IF i < v.size THEN v.slots[i] ELSE w.slots[i]]
    IN IF c.ret = NULL
       THEN c
       ELSE Result([w EXCEPT !.slots = copied, !.size = v.size], 0)

\* heap_iter_next stopping one slot early.
heap_iter_next_short(i, v) ==
    IF i + 1 >= v.size
    THEN [ret |-> 0, val |-> NULL, index |-> i]
    ELSE [ret |-> 1, val |-> v.slots[i], index |-> i + 1]

\* heap_iter_next without the index++.
heap_iter_next_no_advance(i, v) ==
    IF i >= v.size
    THEN [ret |-> 0, val |-> NULL, index |-> i]
    ELSE [ret |-> 1, val |-> v.slots[i], index |-> i]

\* heap_iter_next on an iterator at index i over the heap value v: what it
\* returns, the element stored through *out, and the index afterwards.
heap_iter_next(i, v) ==
    IF i >= v.size
    THEN [ret |-> 0, val |-> NULL, index |-> i]
    ELSE [ret |-> 1, val |-> v.slots[i], index |-> i + 1]

RECURSIVE sort_loop(_, _, _)
sort_loop(a, v, i) ==
    IF i > 0
    THEN LET e == heap_extract(v)
         IN sort_loop([a EXCEPT ![i] = e.ret], e.v, i - 1)
    ELSE a

\* heap_sort's effect on the caller's array.
heap_sort(a, ma) ==
    LET b == heap_build(a, ma)
    IN IF b.ret = NULL THEN a ELSE sort_loop(a, b.v, Len(a))

\* ------------------------------------------------------------------ state
NullHeap == [null |-> TRUE, data |-> "none", size |-> 0, capacity |-> 0]
NoBuffer == [slots |-> FreshSlots, len |-> 0, freed |-> FALSE]

\* The heap value behind handle x.
View(x) ==
    LET b == mem[heap[x].data]
    IN [size |-> heap[x].size, capacity |-> heap[x].capacity,
        slots |-> b.slots, len |-> b.len, freed |-> b.freed]

\* No call is in progress.  pc is the loop being run ("up": sift_up, "down":
\* sift_down, "sort": heap_sort's loop between two extracts), idx that
\* loop's index i, swaps the swaps of the sift so far, outer the index of
\* heap_build's loop (-1 outside it), todo heap_sort's loop counter, sort
\* whether the call is heap_sort.
NoRun == [pc |-> "idle", idx |-> 0, swaps |-> 0, outer |-> -1, todo |-> 0,
          sort |-> FALSE]

NoIter == [heap |-> "none", index |-> 0, snap |-> NoView, dirty |-> FALSE]

\* Handle x becomes a new heap with value r.v in a buffer of its own.
New(x, r) ==
    /\ heap' = [heap EXCEPT ![x] = [null |-> FALSE, data |-> x,
                                    size |-> r.v.size,
                                    capacity |-> r.v.capacity]]
    /\ mem' = [mem EXCEPT ![x] = [slots |-> r.v.slots, len |-> r.v.len,
                                  freed |-> r.v.freed]]

\* The heap behind x takes the value r.v, in the buffer it points at.
Commit(x, r) ==
    /\ heap' = [heap EXCEPT ![x] = [@ EXCEPT !.size = r.v.size,
                                             !.capacity = r.v.capacity]]
    /\ mem' = [mem EXCEPT ![heap[x].data] = [slots |-> r.v.slots,
                                             len |-> r.v.len,
                                             freed |-> r.v.freed]]

InitHeap ==
    /\ heap = [x \in HeapIds |-> NullHeap]
    /\ mem = [b \in HeapIds \cup {"none"} |-> NoBuffer]
    /\ op = "init"
    /\ on = "none"
    /\ ret = 0
    /\ it = NoIter
    /\ out = <<>>
    /\ k = 0
    /\ m = 0
    /\ nops = 0
    /\ rsv = 0
    /\ run = NoRun

\* ---------------------------------------------------------------- actions
\* Each action is one call of the public API on handle x; it leaves arr,
\* arr0, it, out, k, m, nops, rsv and run to the specification that uses it.
Create(x, hint, ma) ==
    /\ heap[x].null
    /\ LET r == heap_create(hint, ma)
       IN /\ IF r.ret = NULL THEN UNCHANGED <<heap, mem>> ELSE New(x, r)
          /\ ret' = r.ret
    /\ op' = "create"
    /\ on' = x

Build(x, a, ma) ==
    /\ heap[x].null
    /\ LET r == heap_build(a, ma)
       IN /\ IF r.ret = NULL THEN UNCHANGED <<heap, mem>> ELSE New(x, r)
          /\ ret' = r.ret
    /\ op' = "build"
    /\ on' = x

Reserve(x, n, ra) ==
    /\ ~heap[x].null
    /\ LET r == heap_reserve(View(x), n, ra)
       IN Commit(x, r) /\ ret' = r.ret
    /\ op' = "reserve"
    /\ on' = x

Trim(x, ra) ==
    /\ ~heap[x].null
    /\ LET r == heap_trim(View(x), ra)
       IN Commit(x, r) /\ ret' = r.ret
    /\ op' = "trim"
    /\ on' = x

Insert(x, item, ra) ==
    /\ ~heap[x].null
    /\ heap[x].size < MaxSize
    /\ LET r == heap_insert(View(x), item, ra)
       IN Commit(x, r) /\ ret' = r.ret
    /\ op' = "insert"
    /\ on' = x

Peek(x) ==
    /\ ~heap[x].null
    /\ LET r == heap_peek(View(x))
       IN Commit(x, r) /\ ret' = r.ret
    /\ op' = "peek"
    /\ on' = x

Extract(x) ==
    /\ ~heap[x].null
    /\ LET r == heap_extract(View(x))
       IN Commit(x, r) /\ ret' = r.ret
    /\ op' = "extract"
    /\ on' = x

Replace(x, item) ==
    /\ ~heap[x].null
    /\ LET r == heap_replace(View(x), item)
       IN Commit(x, r) /\ ret' = r.ret
    /\ op' = "replace"
    /\ on' = x

Size(x) ==
    /\ ~heap[x].null
    /\ LET r == heap_size(View(x))
       IN Commit(x, r) /\ ret' = r.ret
    /\ op' = "size"
    /\ on' = x

Clear(x) ==
    /\ ~heap[x].null
    /\ LET r == heap_clear(View(x))
       IN Commit(x, r) /\ ret' = r.ret
    /\ op' = "clear"
    /\ on' = x

Validate(x) ==
    /\ ~heap[x].null
    /\ LET r == heap_validate(View(x))
       IN Commit(x, r) /\ ret' = r.ret
    /\ op' = "validate"
    /\ on' = x

Clone(x, y, ma) ==
    /\ ~heap[x].null
    /\ heap[y].null
    /\ LET r == heap_clone(View(x), ma)
       IN /\ IF r.ret = NULL THEN UNCHANGED <<heap, mem>> ELSE New(y, r)
          /\ ret' = r.ret
    /\ op' = "clone"
    /\ on' = x

Sort(ma) ==
    /\ arr0' = arr
    /\ arr' = heap_sort(arr, ma)
    /\ ret' = 0
    /\ op' = "sort"
    /\ on' = "none"
    /\ UNCHANGED <<heap, mem>>

\* heap_iter: an iterator over heap x, at index 0.
Iter(x) ==
    /\ ~heap[x].null
    /\ it' = [heap |-> x, index |-> 0, snap |-> View(x), dirty |-> FALSE]
    /\ out' = <<>>
    /\ ret' = 0
    /\ op' = "iter"
    /\ on' = x
    /\ UNCHANGED <<heap, mem>>

\* heap_iter_next: false when the iterator has no heap; otherwise as the
\* heap stands now.
IterNext ==
    /\ IF it.heap = "none"
       THEN /\ ret' = 0
            /\ UNCHANGED <<it, out>>
       ELSE LET r == heap_iter_next(it.index, View(it.heap))
            IN /\ ret' = r.ret
               /\ it' = [it EXCEPT !.index = r.index]
               /\ out' = IF r.ret = 1 THEN Append(out, r.val) ELSE out
    /\ op' = "iter_next"
    /\ on' = it.heap
    /\ UNCHANGED <<heap, mem>>

\* A slot of heap x's logical range that lies outside its allocation is
\* memory the heap does not own: its owner (the allocator, another object)
\* stores e there.
Clobber(x, i, e) ==
    /\ ~heap[x].null
    /\ i >= mem[heap[x].data].len
    /\ i < heap[x].size
    /\ mem[heap[x].data].slots[i] # e
    /\ mem' = [mem EXCEPT ![heap[x].data].slots[i] = e]
    /\ op' = "clobber"
    /\ on' = x
    /\ UNCHANGED <<heap, ret>>

\* ------------------------------------------ the heap's life: one handle
Init ==
    /\ InitHeap
    /\ arr = <<>>
    /\ arr0 = <<>>

Rest == UNCHANGED <<arr, arr0, it, out, k, m, nops, rsv, run>>

Next ==
    \/ \E hint \in 0..MaxHint, ma \in Outcomes : Create("h", hint, ma) /\ Rest
    \/ \E a \in Arrays, ma \in Outcomes : Build("h", a, ma) /\ Rest
    \/ \E n \in 0..MaxReserve, ra \in Reallocs(View("h")) :
          Reserve("h", n, ra) /\ Rest
    \/ \E ra \in TrimReallocs(View("h")) : Trim("h", ra) /\ Rest
    \/ \E item \in Elems, ra \in Reallocs(View("h")) :
             Insert("h", item, ra) /\ Rest
    \/ Peek("h") /\ Rest
    \/ Extract("h") /\ Rest
    \/ \E item \in Elems : Replace("h", item) /\ Rest
    \/ Size("h") /\ Rest
    \/ Clear("h") /\ Rest
    \/ Validate("h") /\ Rest
    \/ \E i \in Slots, e \in Elems : Clobber("h", i, e) /\ Rest

Spec == Init /\ [][Next]_vars

\* ------------------------------------------------- what the claims speak of
\* No child outranks its parent.
HeapProperty(v) ==
    \A i \in 1..(v.size - 1) : cmp(v.slots[i], v.slots[parent(i)]) <= 0

\* The logical range lies inside the allocation.
InBuffer(v) == v.size <= v.len

\* How often element e is stored in the logical range.
Count(v, e) == Cardinality({i \in 0..(v.size - 1) : v.slots[i] = e})

SameBag(v, w) == \A e \in Elems : Count(v, e) = Count(w, e)

\* How often element e occurs in the sequence a.
CountSeq(a, e) == Cardinality({i \in 1..Len(a) : a[i] = e})

\* What extract returns, call after call, until the heap is empty.
RECURSIVE Drain(_)
Drain(v) ==
    IF v.size = 0
    THEN <<>>
    ELSE LET e == heap_extract(v) IN <<e.ret>> \o Drain(e.v)

Vals(a) == [i \in 1..Len(a) |-> Val(a[i])]

NonIncreasing(a) == \A j \in 1..(Len(a) - 1) : cmp(a[j], a[j + 1]) >= 0

\* A public mutation of the heap has just returned.
Returned ==
    op \in {"create", "build", "insert", "extract", "replace", "clear",
            "reserve", "trim"}

\* C1: whenever a public mutation returns, no stored element outranks its
\* parent: cmp(data[i], data[(i-1)/2]) <= 0 for every 1 <= i < size.
C1_HeapPropertyHolds ==
    (~heap["h"].null /\ Returned) => HeapProperty(View("h"))

\* C2: extracting from any reachable heap until it is empty returns the
\* elements in non-increasing priority: cmp(e_j, e_{j+1}) >= 0.
C2_ExtractOrdering ==
    (~heap["h"].null /\ Returned) => NonIncreasing(Drain(View("h")))

\* C3: the logical size never exceeds the capacity, so the slot an insert
\* writes lies inside the allocated buffer.
C3_SizeWithinCapacity ==
    ~heap["h"].null =>
        /\ heap["h"].size <= heap["h"].capacity
        /\ (op = "insert" /\ ret = 0) => InBuffer(View("h"))

\* C5: an insert or a reserve whose reallocation fails returns -1 and
\* leaves size, capacity and every slot as they were.
C5_AllocFailureUnchanged ==
    [][((op' = "insert" \/ op' = "reserve") /\ ret' = -1)
          => (heap' = heap /\ mem' = mem)]_vars

\* A full, non-empty heap refused an insert for want of memory.
C5_Witness ==
    /\ op = "insert"
    /\ ret = -1
    /\ heap["h"].size >= 1
    /\ heap["h"].size = heap["h"].capacity

\* C6: on a non-empty valid heap, replace(x) returns what extract would
\* return, keeps the size, leaves the elements that extract followed by
\* insert(x) leaves, keeps the heap property, and draining either result
\* gives the same priorities in the same order.
C6_ReplaceEquivalence ==
    LET v == View("h")
    IN (~heap["h"].null /\ v.size > 0 /\ HeapProperty(v) /\ InBuffer(v)) =>
        \A x \in Elems, ra \in Reallocs(heap_extract(v).v) :
            LET rp == heap_replace(v, x)
                ex == heap_extract(v)
                ei == heap_insert(ex.v, x, ra)
            IN /\ rp.ret = ex.ret
               /\ rp.v.size = v.size
               /\ ei.ret = 0
               /\ ei.v.size = v.size
               /\ SameBag(rp.v, ei.v)
               /\ HeapProperty(rp.v)
               /\ Vals(Drain(rp.v)) = Vals(Drain(ei.v))

\* A replace has just returned the old root of a valid heap of two or more.
C6_Witness ==
    /\ op = "replace"
    /\ ret # NULL
    /\ heap["h"].size >= 2
    /\ HeapProperty(View("h"))
    /\ InBuffer(View("h"))

\* ------------------------------------- counting inserts and extracts
\* An initially empty heap (created, or built from no elements) on which
\* only insert, extract and size are called.
RestCount == UNCHANGED <<arr, arr0, it, out, nops, rsv, run>>

NextCount ==
    \/ \E hint \in 0..MaxHint, ma \in Outcomes :
          Create("h", hint, ma) /\ RestCount /\ UNCHANGED <<k, m>>
    \/ \E ma \in Outcomes :
          Build("h", <<>>, ma) /\ RestCount /\ UNCHANGED <<k, m>>
    \/ \E item \in Elems, ra \in Reallocs(View("h")) :
          /\ k < MaxCalls
          /\ Insert("h", item, ra)
          /\ k' = IF ret' = 0 THEN k + 1 ELSE k
          /\ RestCount /\ UNCHANGED m
    \/ /\ Extract("h")
       /\ m' = IF heap["h"].size > 0 THEN m + 1 ELSE m
       /\ RestCount /\ UNCHANGED k
    \/ Size("h") /\ RestCount /\ UNCHANGED <<k, m>>
    \/ \E i \in Slots, e \in Elems :
          Clobber("h", i, e) /\ RestCount /\ UNCHANGED <<k, m>>

SpecCount == Init /\ [][NextCount]_vars

\* C4: after k successful inserts and m extracts from a non-empty heap, in
\* any order, on an initially empty heap, the size is k - m, and so is what
\* heap_size returns.
C4_SizeAccounting ==
    ~heap["h"].null =>
        /\ heap["h"].size = k - m
        /\ op = "size" => ret = k - m

\* heap_size has just answered after inserts and extracts were mixed.
C4_Witness ==
    /\ op = "size"
    /\ k >= 3
    /\ m >= 2
    /\ ret = k - m

\* ------------------------------------------- build and sort of an array
InitArr ==
    /\ InitHeap
    /\ arr \in Arrays
    /\ arr0 = arr

RestArr == UNCHANGED <<it, out, k, m, nops, rsv, run>>

NextArr ==
    \/ \E ma \in Outcomes :
          Build("h", arr, ma) /\ arr0' = arr /\ UNCHANGED arr /\ RestArr
    \/ \E ma \in Outcomes : Sort(ma) /\ RestArr

SpecArr == InitArr /\ [][NextArr]_vars

\* C7: a heap that build returns has size n and capacity n, stores exactly
\* the input's elements, passes validate, and the input array is as it was.
C7_BuildCorrect ==
    (op = "build" /\ ret # NULL) =>
        LET v == View("h")
        IN /\ ~heap["h"].null
           /\ v.size = Len(arr0)
           /\ v.capacity = Len(arr0)
           /\ \A e \in Elems : Count(v, e) = CountSeq(arr0, e)
           /\ heap_validate(v).ret = 1
           /\ arr = arr0

\* build has returned a heap of MaxSize elements whose input was no heap.
C7_Witness ==
    /\ op = "build"
    /\ ret # NULL
    /\ Len(arr0) = MaxSize
    /\ \E i \in 2..Len(arr0) : cmp(arr0[i], arr0[1]) > 0

Ascending(a) == \A i, j \in 1..Len(a) : i < j => cmp(a[i], a[j]) <= 0

\* C8: after sort the array holds its original elements, each as often as
\* before, in ascending order: cmp(arr[i], arr[j]) <= 0 for all i < j.
C8_SortCorrect ==
    op = "sort" =>
        /\ Len(arr) = Len(arr0)
        /\ \A e \in Elems : CountSeq(arr, e) = CountSeq(arr0, e)
        /\ Ascending(arr)

\* ------------------------------------------------ a heap and its clone
\* Heap "h" is made, cloned into "c", and at most MaxCloneOps mutating
\* calls follow, each on either of the two.
RestClone == UNCHANGED <<arr, arr0, it, out, k, m, rsv, run>>

Both == ~heap["h"].null /\ ~heap["c"].null

NextClone ==
    \/ \E hint \in 0..MaxHint, ma \in Outcomes :
          Create("h", hint, ma) /\ RestClone /\ UNCHANGED nops
    \/ \E a \in Arrays, ma \in Outcomes :
          Build("h", a, ma) /\ RestClone /\ UNCHANGED nops
    \/ \E ma \in Outcomes : Clone("h", "c", ma) /\ RestClone /\ UNCHANGED nops
    \/ \E x \in HeapIds :
          /\ Both
          /\ nops < MaxCloneOps
          /\ nops' = nops + 1
          /\ RestClone
          /\ \/ \E item \in Elems, ra \in Reallocs(View(x)) :
                   Insert(x, item, ra)
             \/ Extract(x)
             \/ \E item \in Elems : Replace(x, item)
             \/ Clear(x)
             \/ \E n \in 0..MaxReserve, ra \in Reallocs(View(x)) :
                   Reserve(x, n, ra)
             \/ \E ra \in TrimReallocs(View(x)) : Trim(x, ra)
    \/ \E x \in HeapIds, i \in Slots, e \in Elems :
          Both /\ Clobber(x, i, e) /\ RestClone /\ UNCHANGED nops

SpecClone == Init /\ [][NextClone]_vars

\* What a caller can see of heap x: its size and its stored slots.
Seen(x) ==
    [size |-> heap[x].size,
     stored |-> [i \in 0..(heap[x].size - 1) |-> mem[heap[x].data].slots[i]]]

Other(x) == IF x = "h" THEN "c" ELSE "h"

Mutations == {"insert", "extract", "replace", "clear", "reserve", "trim"}

\* C9: the clone has the original's size and stored slots; afterwards a
\* mutating call on one of the two heaps leaves the other's size and stored
\* slots as they were, and each heap keeps the heap property.
C9_CloneIndependence ==
    [][/\ (op' = "clone" /\ ret' # NULL) => Seen("c")' = Seen("h")
       /\ (Both /\ op' \in Mutations) =>
              /\ \A x \in HeapIds :
                     on' = x => Seen(Other(x))' = Seen(Other(x))
              /\ HeapProperty(View("h"))'
              /\ HeapProperty(View("c"))']_vars

\* ------------------------------------------------------------- iteration
\* Heap "h" is made; iterators are taken and stepped; at most MaxIterOps
\* mutating calls are made on the heap, before or during an iteration.
RestIter == UNCHANGED <<arr, arr0, k, m, rsv, run>>

\* The heap the iterator walks has been changed.
Touched == it' = [it EXCEPT !.dirty = TRUE]

NextIter ==
    \/ \E a \in Arrays, ma \in Outcomes :
          Build("h", a, ma) /\ RestIter /\ UNCHANGED <<it, out, nops>>
    \/ Iter("h") /\ RestIter /\ UNCHANGED nops
    \/ IterNext /\ RestIter /\ UNCHANGED nops
    \/ /\ nops < MaxIterOps
       /\ nops' = nops + 1
       /\ Touched
       /\ RestIter /\ UNCHANGED out
       /\ \/ \E item \in Elems, ra \in Reallocs(View("h")) :
             Insert("h", item, ra)
          \/ Extract("h")
    \/ \E i \in Slots, e \in Elems :
          Clobber("h", i, e) /\ Touched /\ RestIter /\ UNCHANGED <<out, nops>>

SpecIter == Init /\ [][NextIter]_vars

\* C10: while the heap is not changed, an iterator over a heap of size n
\* has yielded data[0], data[1], ... in order, one slot per true return;
\* heap_iter_next returns false exactly when all n have been yielded; and
\* the heap is as it was when the iterator was made.
C10_RoundTripIterate ==
    (it.heap # "none" /\ ~it.dirty) =>
        LET v == View(it.heap)
        IN /\ v = it.snap
           /\ Len(out) = it.index
           /\ it.index <= v.size
           /\ \A j \in 1..Len(out) : out[j] = v.slots[j - 1]
           /\ (op = "iter_next" /\ ret = 0) => Len(out) = v.size
           /\ (op = "iter_next" /\ ret = 1) => Len(out) >= 1

\* An iteration over an unchanged heap of MaxSize elements has ended.
C10_Witness ==
    /\ it.heap # "none"
    /\ ~it.dirty
    /\ op = "iter_next"
    /\ ret = 0
    /\ Len(out) = MaxSize
    /\ heap[it.heap].size = MaxSize

\* ------------------------------------------------- reserve, then inserts
\* One handle; rsv remembers what a successful reserve has promised.
RestReserve == UNCHANGED <<arr, arr0, it, out, k, m, nops, run>>

Max(a, b) == IF a > b THEN a ELSE b

NextReserve ==
    \/ \E hint \in 0..MaxHint, ma \in Outcomes :
          Create("h", hint, ma) /\ RestReserve /\ UNCHANGED rsv
    \/ \E a \in Arrays, ma \in Outcomes :
          Build("h", a, ma) /\ RestReserve /\ UNCHANGED rsv
    \/ \E n \in 0..MaxReserve, ra \in Reallocs(View("h")) :
          /\ Reserve("h", n, ra)
          /\ rsv' = IF ret' = 0 THEN Max(rsv, n) ELSE rsv
          /\ RestReserve
    \/ \E ra \in TrimReallocs(View("h")) :
          Trim("h", ra) /\ rsv' = 0 /\ RestReserve
    \/ \E item \in Elems, ra \in Reallocs(View("h")) :
          Insert("h", item, ra) /\ RestReserve /\ UNCHANGED rsv
    \/ Extract("h") /\ RestReserve /\ UNCHANGED rsv
    \/ Clear("h") /\ RestReserve /\ UNCHANGED rsv
    \/ \E i \in Slots, e \in Elems :
          Clobber("h", i, e) /\ RestReserve /\ UNCHANGED rsv

SpecReserve == Init /\ [][NextReserve]_vars

\* C11: a successful reserve(n) leaves capacity >= n with the size and the
\* stored slots as they were; until the next trim, every insert made while
\* size < n returns 0 without changing the capacity, whatever the allocator
\* would have answered.
C11_ReserveTransparency ==
    [][/\ (op' = "reserve" /\ ret' = 0) =>
              /\ heap'["h"].capacity >= rsv'
              /\ Seen("h")' = Seen("h")
       /\ (op' = "insert" /\ heap["h"].size < rsv) =>
              /\ ret' = 0
              /\ heap'["h"].capacity = heap["h"].capacity
              /\ heap'["h"].size = heap["h"].size + 1]_vars

\* The stored slots of handle x: what indices 0..size-1 hold.
Stored(x) == [i \in 0..(heap[x].size - 1) |-> mem[heap[x].data].slots[i]]

\* C12: trim changes neither the size nor the stored slots; afterwards the
\* capacity is the size (shrunk) or what it was (not shrunk), and the call
\* reports nothing.
C12_TrimPreserves ==
    [][op' = "trim" =>
          /\ heap'["h"].size = heap["h"].size
          /\ Stored("h")' = Stored("h")
          /\ heap'["h"].capacity \in {heap["h"].size, heap["h"].capacity}
          /\ ret' = 0]_vars

\* C13: on an empty heap extract, replace(x) and peek return NULL and leave
\* the struct and the buffer as they were, so x is not stored and no
\* element stored earlier comes back.
C13_EmptySignal ==
    [][(op' \in {"extract", "replace", "peek"} /\ heap["h"].size = 0) =>
          /\ ret' = NULL
          /\ heap' = heap
          /\ mem' = mem]_vars

\* replace has just returned NULL on a drained heap whose buffer still holds
\* the element that was stored before.
C13_Witness ==
    /\ op = "replace"
    /\ ret = NULL
    /\ heap["h"].size = 0
    /\ heap["h"].capacity > 0
    /\ InBuffer(View("h"))
    /\ ~mem["h"].freed
    /\ mem["h"].slots[0] = MaxElem

\* C14: on a non-empty heap peek returns data[0], no stored element
\* compares above it, the next extract returns the same element, and the
\* struct and the buffer are as they were.
C14_PeekMaximum ==
    [][(op' = "peek" /\ heap["h"].size > 0) =>
          /\ ret' = mem["h"].slots[0]
          /\ \A i \in 0..(heap["h"].size - 1) :
                cmp(mem["h"].slots[i], ret') <= 0
          /\ heap_extract(View("h")').ret = ret'
          /\ heap' = heap
          /\ mem' = mem]_vars

\* ------------------------------------------------ validate on any contents
\* The heap starts with any size and any slot contents, valid or not, in a
\* buffer of exactly that size; heap_validate is then called on it.
InitAny ==
    /\ \E n \in 0..MaxSize, d \in [Slots -> Elems] :
          /\ heap = [x \in HeapIds |->
                        IF x = "h"
                        THEN [null |-> FALSE, data |-> "h", size |-> n,
                              capacity |-> n]
                        ELSE NullHeap]
          /\ mem = [b \in HeapIds \cup {"none"} |->
                       IF b = "h"
                       THEN [slots |-> d, len |-> n, freed |-> FALSE]
                       ELSE NoBuffer]
    /\ op = "init"
    /\ on = "none"
    /\ ret = 0
    /\ it = NoIter
    /\ out = <<>>
    /\ k = 0
    /\ m = 0
    /\ nops = 0
    /\ rsv = 0
    /\ run = NoRun
    /\ arr = <<>>
    /\ arr0 = <<>>

NextValidate == Validate("h") /\ Rest

SpecValidate == InitAny /\ [][NextValidate]_vars

\* C15: for any contents and size, validate returns true exactly when every
\* index i with 1 <= i < size holds an element that does not compare above
\* the one at (i-1)/2; it returns true for sizes 0 and 1 and leaves the
\* struct and the buffer as they were.
C15_ValidateExact ==
    [][op' = "validate" =>
          /\ (ret' = 1) <=>
                \A i \in 1..(heap["h"].size - 1) :
                    cmp(mem["h"].slots[i], mem["h"].slots[(i - 1) \div 2]) <= 0
          /\ ret' \in {0, 1}
          /\ heap["h"].size <= 1 => ret' = 1
          /\ heap' = heap
          /\ mem' = mem]_vars

\* validate has returned false on contents whose only violation is at an
\* index after the first child.
C15_Witness ==
    /\ op = "validate"
    /\ ret = 0
    /\ heap["h"].size >= 3
    /\ cmp(mem["h"].slots[1], mem["h"].slots[0]) <= 0
    /\ cmp(mem["h"].slots[2], mem["h"].slots[0]) > 0

\* -------------------------------------------- sift-down on any contents
\* From any size and contents, replace and extract run sift_down from the
\* root.
NextStrict ==
    \/ \E item \in Elems : Replace("h", item) /\ Rest
    \/ Extract("h") /\ Rest

SpecStrict == InitAny /\ [][NextStrict]_vars

\* The children of index i inside the logical range of v.
Kids(v, i) == {c \in {2 * i + 1, 2 * i + 2} : c < v.size}

\* C16: sift_down from any index moves nothing when no child compares
\* strictly above the node, and when it does move the node, the element it
\* puts in the node's place is a child that compared strictly above it; a
\* replace(x) whose x no child of the root compares strictly above leaves x
\* at index 0 and every other slot as it was.
C16_StrictSwapsOnly ==
    [][LET v == View("h")
           d == v.slots
       IN /\ \A i \in 0..(v.size - 1) :
                LET s == sift_down(d, v.size, i)
                IN /\ (\A c \in Kids(v, i) : cmp(d[c], d[i]) <= 0) => s = d
                   /\ s # d => \E c \in Kids(v, i) :
                                  /\ cmp(d[c], d[i]) > 0
                                  /\ s[i] = d[c]
          /\ \A x \in Elems :
                (/\ Replace("h", x)
                 /\ v.size > 0
                 /\ \A c \in Kids(v, 0) : cmp(d[c], x) <= 0) =>
                    /\ mem'["h"].slots = [d EXCEPT ![0] = x]
                    /\ heap' = heap
                    /\ ret' = d[0]]_vars

\* replace has stored at the root an element that ties with a child: the
\* root has the lowest priority, so it was not moved up from below.
C16_Witness ==
    /\ op = "replace"
    /\ ret # NULL
    /\ heap["h"].size >= 3
    /\ Val(mem["h"].slots[0]) = 0
    /\ Val(mem["h"].slots[1]) = 0
    /\ mem["h"].slots[0] # mem["h"].slots[1]

CmpAnswers == {-1, 0, 1}

RestSift == UNCHANGED <<arr0, it, out, k, m, nops, rsv>>

InitSift == Init \/ InitAny

\* heap_insert up to the call of sift_up.
InsertCall(item, ra) ==
    /\ run.pc = "idle"
    /\ ~heap["h"].null
    /\ heap["h"].size < MaxSize
    /\ LET v == View("h")
           g == IF v.size = v.capacity
                THEN heap_reserve(v, v.capacity * 2, ra)
                ELSE Result(v, 0)
       IN IF g.ret < 0
          THEN /\ ret' = -1
               /\ UNCHANGED <<heap, mem, run>>
          ELSE /\ Commit("h", Result([g.v EXCEPT !.slots[v.size] = item], 0))
               /\ ret' = ret
               /\ run' = [run EXCEPT !.pc = "up", !.idx = v.size, !.swaps = 0]
    /\ op' = "insert"
    /\ on' = "h"
    /\ UNCHANGED arr

\* One test of sift_up's loop: swap with the parent and go on from there,
\* or leave the loop; heap_insert then counts the element and returns 0.
SiftUpStep(c) ==
    /\ run.pc = "up"
    /\ LET v == View("h")
           i == run.idx
           p == parent(i)
       IN IF i > 0 /\ c > 0
          THEN /\ Commit("h", Result([v EXCEPT !.slots = swap(v.slots, i, p)], 0))
               /\ run' = [run EXCEPT !.idx = p, !.swaps = @ + 1]
               /\ ret' = ret
          ELSE /\ Commit("h", Result([v EXCEPT !.size = v.size + 1], 0))
               /\ run' = NoRun
               /\ ret' = 0
    /\ UNCHANGED <<op, on, arr>>

\* heap_extract up to the call of sift_down.
ExtractCall ==
    /\ run.pc = "idle"
    /\ ~heap["h"].null
    /\ LET v == View("h")
       IN IF v.size = 0
          THEN /\ ret' = NULL
               /\ UNCHANGED <<heap, mem, run>>
          ELSE /\ Commit("h", Result([v EXCEPT !.slots[0] = v.slots[v.size - 1],
                                               !.size = v.size - 1], 0))
               /\ ret' = v.slots[0]
               /\ run' = IF v.size - 1 > 0
                         THEN [run EXCEPT !.pc = "down", !.idx = 0, !.swaps = 0]
                         ELSE run
    /\ op' = "extract"
    /\ on' = "h"
    /\ UNCHANGED arr

\* heap_replace up to the call of sift_down.
ReplaceCall(item) ==
    /\ run.pc = "idle"
    /\ ~heap["h"].null
    /\ LET v == View("h")
       IN IF v.size = 0
          THEN /\ ret' = NULL
               /\ UNCHANGED <<heap, mem, run>>
          ELSE /\ Commit("h", Result([v EXCEPT !.slots[0] = item], 0))
               /\ ret' = v.slots[0]
               /\ run' = [run EXCEPT !.pc = "down", !.idx = 0, !.swaps = 0]
    /\ op' = "replace"
    /\ on' = "h"
    /\ UNCHANGED arr

\* heap_build (or heap_sort, which starts with it) up to the first
\* sift_down of the bottom-up loop.
BuildCall(a, ma, sorting) ==
    /\ run.pc = "idle"
    /\ heap["h"].null
    /\ LET n == Len(a)
           first == (n \div 2) - 1
           copied == [i \in Slots |-> IF i < n THEN a[i + 1] ELSE FreshSlots[i]]
       IN IF ma = "fail"
          THEN /\ ret' = IF sorting THEN 0 ELSE NULL
               /\ UNCHANGED <<heap, mem, run>>
          ELSE /\ New("h", Result([size |-> n, capacity |-> n,
                                   slots |-> copied, len |-> n,
                                   freed |-> FALSE], 0))
               /\ ret' = 0
               /\ run' = [pc |-> IF first >= 0 THEN "down"
                                 ELSE IF sorting THEN "sort" ELSE "idle",
                          idx |-> IF first >= 0 THEN first ELSE 0,
                          swaps |-> 0,
                          outer |-> first,
                          todo |-> IF sorting THEN n ELSE 0,
                          sort |-> sorting]
    /\ op' = IF sorting THEN "sort" ELSE "build"
    /\ on' = "h"
    /\ arr' = IF sorting THEN a ELSE arr

\* sift_down has returned: heap_build goes on with its next index, and the
\* call returns when there is none (heap_sort goes on to its own loop).
AfterSift ==
    IF run.outer > 0
    THEN [run EXCEPT !.outer = @ - 1, !.idx = run.outer - 1, !.swaps = 0]
    ELSE IF run.sort
         THEN [run EXCEPT !.pc = "sort", !.idx = 0, !.swaps = 0, !.outer = -1]
         ELSE NoRun

\* One turn of sift_down's loop; cl and cr answer the comparisons of the
\* left and of the right child (made only for a child below size).
SiftDownStep(cl, cr) ==
    /\ run.pc = "down"
    /\ LET v == View("h")
           i == run.idx
           l == left(i)
           r == right(i)
           l1 == IF l < v.size /\ cl > 0 THEN l ELSE i
           largest == IF r < v.size /\ cr > 0 THEN r ELSE l1
       IN IF largest = i
          THEN /\ run' = AfterSift
               /\ UNCHANGED <<heap, mem>>
          ELSE /\ Commit("h", Result([v EXCEPT !.slots =
                                         swap(v.slots, i, largest)], 0))
               /\ run' = [run EXCEPT !.idx = largest, !.swaps = @ + 1]
    /\ UNCHANGED <<op, on, ret, arr>>

\* One turn of heap_sort's loop: the heap_extract whose result goes to
\* arr[i], up to its sift_down; after the last turn, heap_destroy.  (The
\* store to arr[i] is modelled at the start of the extract: the heap has
\* its own copy of the array and never reads arr.)
SortStep ==
    /\ run.pc = "sort"
    /\ LET v == View("h")
       IN IF run.todo > 0
          THEN IF v.size = 0
               THEN /\ arr' = [arr EXCEPT ![run.todo] = NULL]
                    /\ run' = [run EXCEPT !.todo = @ - 1]
                    /\ UNCHANGED <<heap, mem>>
               ELSE /\ arr' = [arr EXCEPT ![run.todo] = v.slots[0]]
                    /\ Commit("h", Result(
                           [v EXCEPT !.slots[0] = v.slots[v.size - 1],
                                     !.size = v.size - 1], 0))
                    /\ run' = [run EXCEPT
                                  !.todo = @ - 1,
                                  !.pc = IF v.size - 1 > 0 THEN "down"
                                         ELSE "sort",
                                  !.idx = 0,
                                  !.swaps = 0]
          ELSE /\ heap' = [heap EXCEPT !["h"] = NullHeap]
               /\ mem' = [mem EXCEPT !["h"] = NoBuffer]
               /\ run' = NoRun
               /\ UNCHANGED arr
    /\ UNCHANGED <<op, on, ret>>

\* One call is made on each initial state and followed until it returns.
NextSift ==
    \/ /\ op = "init"
       /\ \E item \in Elems, ra \in Reallocs(View("h")) :
             InsertCall(item, ra) /\ RestSift
    \/ \E c \in CmpAnswers : SiftUpStep(c) /\ RestSift
    \/ op = "init" /\ ExtractCall /\ RestSift
    \/ op = "init" /\ \E item \in Elems : ReplaceCall(item) /\ RestSift
    \/ /\ op = "init"
       /\ \E a \in Arrays, ma \in Outcomes :
             BuildCall(a, ma, FALSE) /\ RestSift
    \/ /\ op = "init"
       /\ \E a \in Arrays, ma \in Outcomes :
             BuildCall(a, ma, TRUE) /\ RestSift
    \/ \E cl, cr \in CmpAnswers : SiftDownStep(cl, cr) /\ RestSift
    \/ SortStep /\ RestSift

SpecSift == InitSift /\ [][NextSift]_vars

RECURSIVE Log2Floor(_)
Log2Floor(n) == IF n <= 1 THEN 0 ELSE 1 + Log2Floor(n \div 2)

Weight == MaxSize + 1

\* A bound on the loop iterations the call in progress still has to make.
Variant ==
    IF run.pc = "idle"
    THEN 0
    ELSE 1 + (IF run.pc = "up" THEN run.idx + 1
              ELSE IF run.pc = "down" THEN heap["h"].size - run.idx
              ELSE 0)
           + (run.outer + 1) * Weight
           + run.todo * Weight

\* C18: whatever the comparator answers, every loop iteration of a call in
\* progress lowers a natural-number bound on the iterations left, so the
\* call returns; sift_up's index strictly decreases and it makes at most
\* floor(log2(size + 1)) swaps; sift_down's index strictly increases and
\* stays below size.
C18_Terminates ==
    [][/\ run.pc # "idle" => (Variant' < Variant /\ Variant' >= 0)
       /\ run'.pc = "up" => run'.swaps <= Log2Floor(heap'["h"].size + 1)
       /\ (run.pc = "up" /\ run'.pc = "up") => run'.idx < run.idx
       /\ (/\ run.pc = "down" /\ run'.pc = "down"
           /\ run'.outer = run.outer /\ run'.todo = run.todo) =>
              /\ run'.idx > run.idx
              /\ run'.idx < heap'["h"].size]_vars

\* sift_up has reached the root after as many swaps as the bound allows.
C18_Witness ==
    /\ op = "insert"
    /\ run.pc = "up"
    /\ run.idx = 0
    /\ run.swaps >= 1
    /\ run.swaps = Log2Floor(heap["h"].size + 1)

\* ---------------------------------------------------- the stored multiset
\* How often each element is stored in v.
BagOf(v) == [e \in Elems |-> Count(v, e)]

\* The multiset b with one x more, and with one x less.
Plus(b, x) == [b EXCEPT ![x] = @ + 1]
Minus(b, x) == [b EXCEPT ![x] = @ - 1]

\* C19: a successful insert(x) adds one x to the stored multiset, a
\* non-empty extract takes the returned data[0] out of it, a non-empty
\* replace(x) takes the returned data[0] out and puts x in, and reserve and
\* trim leave it as it was.
C19_MultisetConserved ==
    [][LET v == View("h")
           w == View("h")'
       IN /\ \A x \in Elems, ra \in Reallocs(v) :
                (Insert("h", x, ra) /\ ret' = 0) =>
                    BagOf(w) = Plus(BagOf(v), x)
          /\ (op' = "extract" /\ v.size > 0) =>
                /\ ret' = v.slots[0]
                /\ BagOf(w) = Minus(BagOf(v), ret')
          /\ \A x \in Elems :
                (Replace("h", x) /\ v.size > 0) =>
                    /\ ret' = v.slots[0]
                    /\ BagOf(w) = Plus(Minus(BagOf(v), ret'), x)
          /\ op' \in {"reserve", "trim"} => BagOf(w) = BagOf(v)]_vars

====
